---- MODULE Spec2Model ----
(* A model of main.py: the RuleEngine / CAP rule engine (presence maps,    *)
(* the car-and-person rule, the frame-distance notification gate) and the   *)
(* Render.render event loop that drives it over a list of frames.           *)
EXTENDS Integers, Sequences, FiniteSets, TLC

VARIABLES
    env_token,            \* os.getenv("SLACK_TOKEN") is set
    env_channel,          \* "SLACK_CHANNEL" is a key of os.environ
    rois,                 \* RuleEngine._rois
    objects_in_rois,      \* RuleEngine._objects_in_rois
    count,                \* CAP._count
    last_positive_frame,  \* RuleEngine._last_positive_frame
    slack_client,         \* RuleEngine.__slack_client is not None
    video,                \* Render.video: "none", "open", "released"
    pc,                   \* position of the program
    frame,                \* the frame the loop of render is in
    alerts,               \* the local set alerts of render
    ret,                  \* value returned by the last completed execute
    posts,                \* calls of chat_postMessage made so far
    prev_positive,        \* frame number of the last rule-positive execute
    last_post,            \* frame number of the last call of chat_postMessage
    seen,                 \* frame number of the last frame the loop took
    dets,                 \* frame["detections"] when the frame is given whole
    di,                   \* detections of dets the loop has gone through
    other                 \* another engine of the process: whether it was
                          \* constructed, its client, _count,
                          \* _last_positive_frame and messages posted

vars == <<env_token, env_channel, rois, objects_in_rois, count,
          last_positive_frame, slack_client, video, pc, frame, alerts,
          ret, posts, prev_positive, last_post, seen, dets, di, other>>

(***************************************************************************)
(* Bounds of the model.                                                    *)
(***************************************************************************)
\* Spec: the occurrence counter is not driven beyond MaxCount, and frame
\* numbers are drawn from 0..MaxFrameNum
MaxCount == 2
MaxFrameNum == 2
\* SpecGate: the same for the runs that exercise the gate, whose frame
\* numbers are 0..MaxSmallFrame and 10, 11, 12, 20
MaxGateCount == 4
MaxSmallFrame == 2
\* SpecFrame: detections of the frame that is given whole
MaxDets == 3
\* SpecShared: the occurrence counter of the other engine is not driven
\* beyond MaxOtherCount
MaxOtherCount == 1
\* SpecShared: direct calls of notify on the other engine are not made
\* once it has posted MaxOtherPosts messages
MaxOtherPosts == 1

(***************************************************************************)
(* Program constants.                                                      *)
(***************************************************************************)
maximum_allowed_diff == 1

\* the keys every presence map is built with
Tracked == {"car", "person", "truck"}

\* the keys of Render.__colors
colors == {"person", "car", "truck", "alert", "other"}

(***************************************************************************)
(* Inputs.  A bounding box holds fractions of the frame as numerators over *)
(* Den; a region of interest is a convex polygon in pixels.                *)
(***************************************************************************)
Den == 4

Classes == {"car", "person", "truck", "other", "bus"}

BBoxes ==
    { [left |-> 0, top |-> 0, width |-> 1, height |-> 1],
      [left |-> 1, top |-> 1, width |-> 1, height |-> 1],
      [left |-> 2, top |-> 2, width |-> 1, height |-> 1],
      [left |-> 3, top |-> 3, width |-> 1, height |-> 1],
      [left |-> 1, top |-> 0, width |-> 2, height |-> 2] }

BoxA == [left |-> 0, top |-> 0, width |-> 1, height |-> 1]
BoxAB == [left |-> 1, top |-> 1, width |-> 1, height |-> 1]
BoxOut == [left |-> 3, top |-> 3, width |-> 1, height |-> 1]

\* Spec: every box with the classes of the rule, one box with the others
Detections ==
    [class : {"car", "person"}, bbox : BBoxes]
        \cup [class : Classes, bbox : {BoxAB}]

FrameDims == { <<4, 4>>, <<8, 4>> }

FrameNums == 0..MaxFrameNum

\* SpecGate: the classes of the rule inside and outside a region
GateDetections == [class : {"car", "person"}, bbox : {BoxA, BoxOut}]

GateFrameNums == (0..MaxSmallFrame) \cup {10, 11, 12, 20}

\* SpecFrame: the frames that are given whole
FrameDetections == [class : {"car", "person", "truck"}, bbox : {BoxA, BoxAB}]

RoiA == << <<0, 0>>, <<2, 0>>, <<2, 2>>, <<0, 2>> >>
RoiB == << <<1, 1>>, <<1, 3>>, <<3, 3>>, <<3, 1>> >>
RoiT == << <<2, 0>>, <<6, 0>>, <<6, 4>> >>

RoiConfigs == { <<RoiA, RoiB>>, <<RoiB, RoiT>> }

\* what chat_postMessage does: it returns, it raises a SlackApiError whose
\* response carries an error text, it raises a SlackApiError whose response
\* has an empty error or none, or it raises another error
Outcomes == {"ok", "SlackApiError", "SlackApiError_no_error", "error"}

(***************************************************************************)
(* RuleEngine                                                              *)
(***************************************************************************)
NewMap == [c \in Tracked |-> FALSE]

\* the corners of the box in pixels, each coordinate multiplied by Den
calculate_coords(left, top, width, height, frame_width, frame_height) ==
    << <<left * frame_width, top * frame_height>>,
       <<(left + width) * frame_width, top * frame_height>>,
       <<(left + width) * frame_width, (top + height) * frame_height>>,
       <<left * frame_width, (top + height) * frame_height>> >>

\* centroid of the rectangle calculate_coords returns, multiplied by two
centroid(object) ==
    <<object[1][1] + object[3][1], object[1][2] + object[3][2]>>

Cross(a, b, p) ==
    (b[1] - a[1]) * (p[2] - a[2]) - (b[2] - a[2]) * (p[1] - a[1])

\* roi.intersects(point) for a convex roi (its border included); point is
\* in units of 1 / (2 * Den) pixel
intersects(roi, point) ==
    LET n == Len(roi)
        v(i) == <<2 * Den * roi[i][1], 2 * Den * roi[i][2]>>
        side(i) == Cross(v(i), v((i % n) + 1), point)
    IN  \/ \A i \in 1..n : side(i) >= 0
        \/ \A i \in 1..n : side(i) =< 0

\* the maps are left as they are
reset_objects_nothing(objs) == objs

\* the last region is left out
reset_objects_short(objs) ==
    [index \in 1..Len(objs) |->
        IF index < Len(objs) THEN NewMap ELSE objs[index]]

\* the flags are cleared and the keys the maps have are kept
reset_objects_keep_keys(objs) ==
    [index \in 1..Len(objs) |-> [k \in DOMAIN objs[index] |-> FALSE]]

reset_objects(objs) == [index \in 1..Len(objs) |-> NewMap]

\* last_positive_frame moves only when a client is configured
should_notify_client_only(client, last, current_frame) ==
    [res  |-> client /\ maximum_allowed_diff < current_frame - last,
     last |-> IF client THEN current_frame ELSE last]

\* last_positive_frame is never stored
should_notify_no_update(client, last, current_frame) ==
    [res  |-> client /\ maximum_allowed_diff < current_frame - last,
     last |-> last]

\* a last_positive_frame of 0 is read as "never" and lets the gate open
should_notify_never(client, last, current_frame) ==
    [res  |-> client /\
              (last = 0 \/ maximum_allowed_diff < current_frame - last),
     last |-> current_frame]

\* the comparison admits a difference equal to maximum_allowed_diff
should_notify_inclusive(client, last, current_frame) ==
    [res  |-> client /\ maximum_allowed_diff =< current_frame - last,
     last |-> current_frame]

\* last_positive_frame moves only when a notification is due
should_notify_sent_only(client, last, current_frame) ==
    LET res == client /\ maximum_allowed_diff < current_frame - last
    IN  [res |-> res, last |-> IF res THEN current_frame ELSE last]

should_notify(client, last, current_frame) ==
    [res  |-> client /\ maximum_allowed_diff < current_frame - last,
     last |-> current_frame]

\* what notify does with the client: "skipped" without a client, else the
\* message is posted.  The handler of SlackApiError asserts
\* e.response["error"]: a SlackApiError with an error text is caught, one
\* with an empty error or none leaves notify by the AssertionError or the
\* KeyError of the handler, and any other error is not caught at all
notify(client, outcome) ==
    IF ~client THEN "skipped"
    ELSE IF outcome = "ok" THEN "sent"
    ELSE IF outcome = "SlackApiError" THEN "caught"
    ELSE "raised"

(***************************************************************************)
(* CAP                                                                     *)
(***************************************************************************)
\* the regions of rs that contain the point
Containing(rs, point) == {i \in 1..Len(rs) : intersects(rs[i], point)}

\* the last roi is taken when none contains the point
FirstRoi_fallthrough(rs, point) ==
    LET first(S) == IF S = {} THEN Len(rs)
                    ELSE CHOOSE i \in S : \A j \in S : i =< j
    IN  first(Containing(rs, point))

\* the last roi that contains the point is taken
FirstRoi_last(rs, point) ==
    LET last(S) == IF S = {} THEN 0
                   ELSE CHOOSE i \in S : \A j \in S : i >= j
    IN  last(Containing(rs, point))

\* index (from 1) of the first roi that contains the point, 0 if none does
FirstRoi(rs, point) ==
    LET first(S) == IF S = {} THEN 0
                    ELSE CHOOSE i \in S : \A j \in S : i =< j
    IN  first(Containing(rs, point))

\* the flag of the class is flipped instead of set
Mark_flip(objs, index, obj_class) ==
    [objs EXCEPT ![index] =
        [k \in (DOMAIN objs[index]) \cup {obj_class} |->
            IF k = obj_class
            THEN ~(k \in DOMAIN objs[index] /\ objs[index][k])
            ELSE objs[index][k]]]

\* self._objects_in_rois[index][obj_class] = True
Mark(objs, index, obj_class) ==
    [objs EXCEPT ![index] =
        [k \in (DOMAIN objs[index]) \cup {obj_class} |->
            IF k = obj_class THEN TRUE ELSE objs[index][k]]]

\* one of the two classes is enough
rule_either(presence) == presence["car"] \/ presence["person"]

\* the rule: a car and a person in the region
rule(presence) == presence["car"] /\ presence["person"]

\* the gate is asked, and notify called, on a negative evaluation too
rule_checking_always_ask(marked, index, cnt, last, sn) ==
    IF rule(marked[index])
    THEN [objs |-> marked, count |-> cnt + 1, last |-> sn.last,
          ret |-> index - 1, asked |-> TRUE, notify |-> sn.res]
    ELSE [objs |-> marked, count |-> cnt, last |-> sn.last,
          ret |-> -1, asked |-> TRUE, notify |-> sn.res]

\* the index of the region is returned on a negative evaluation too
rule_checking_return_index(marked, index, cnt, last, sn) ==
    IF rule(marked[index])
    THEN [objs |-> marked, count |-> cnt + 1, last |-> sn.last,
          ret |-> index - 1, asked |-> TRUE, notify |-> sn.res]
    ELSE [objs |-> marked, count |-> cnt, last |-> last,
          ret |-> index - 1, asked |-> FALSE, notify |-> FALSE]

\* the rule checking of execute on the marked maps: a positive evaluation
\* counts, asks the gate (sn is what should_notify gives) and returns the
\* index; a negative one breaks out of the loop and returns -1
rule_checking(marked, index, cnt, last, sn) ==
    IF rule(marked[index])
    THEN [objs |-> marked, count |-> cnt + 1, last |-> sn.last,
          ret |-> index - 1, asked |-> TRUE, notify |-> sn.res]
    ELSE [objs |-> marked, count |-> cnt, last |-> last,
          ret |-> -1, asked |-> FALSE, notify |-> FALSE]

\* the rule is checked on the presence map of before the mark
execute_roi_check_first(index, objs, cnt, last, client, obj_class, frame_num) ==
    IF index = 0
    THEN [objs |-> objs, count |-> cnt, last |-> last, ret |-> -1,
          asked |-> FALSE, notify |-> FALSE]
    ELSE IF rule(objs[index])
    THEN rule_checking(Mark(objs, index, obj_class), index, cnt, last,
                       should_notify(client, last, frame_num))
    ELSE [objs |-> Mark(objs, index, obj_class), count |-> cnt,
          last |-> last, ret |-> -1, asked |-> FALSE, notify |-> FALSE]

\* execute for the roi the loop stops at (index 0: the loop ends without a
\* match and execute returns -1)
execute_roi(index, objs, cnt, last, client, obj_class, frame_num) ==
    IF index = 0
    THEN [objs |-> objs, count |-> cnt, last |-> last, ret |-> -1,
          asked |-> FALSE, notify |-> FALSE]
    ELSE rule_checking(Mark(objs, index, obj_class), index, cnt, last,
                       should_notify(client, last, frame_num))

\* execute up to the call of notify: the new state, the value to return,
\* whether should_notify was called and whether notify is called
execute(rs, objs, cnt, last, client, object, obj_class, frame_num) ==
    execute_roi(FirstRoi(rs, centroid(object)), objs, cnt, last, client,
                obj_class, frame_num)

(***************************************************************************)
(* Render and the program                                                  *)
(***************************************************************************)
NoFrame == [frame_num |-> 0, frame_width |-> 0, frame_height |-> 0]

\* no other engine has been constructed
NoOther ==
    [state |-> "none", client |-> FALSE, count |-> 0, last |-> 0,
     posts |-> 0]

Init ==
    /\ env_token \in BOOLEAN
    /\ env_channel \in BOOLEAN
    /\ rois = << >>
    /\ objects_in_rois = << >>
    /\ count = 0
    /\ last_positive_frame = 0
    /\ slack_client = FALSE
    /\ video = "none"
    /\ pc = "start"
    /\ frame = NoFrame
    /\ alerts = {}
    /\ ret = -1
    /\ posts = 0
    /\ prev_positive = -1
    /\ last_post = -1
    /\ seen = 0
    /\ dets = << >>
    /\ di = 0
    /\ other = NoOther

\* Render(rois, ...): RuleEngine.__init__ appends the regions and their
\* presence maps, makes the client when a token is set and reads
\* os.environ["SLACK_CHANNEL"], which raises when the key is absent; then
\* Render.__init__ opens the video writer
Construct(rs) ==
    /\ pc = "start"
    /\ rois' = rois \o rs
    /\ objects_in_rois' = objects_in_rois \o [i \in 1..Len(rs) |-> NewMap]
    /\ slack_client' = env_token
    /\ IF env_channel
       THEN video' = "open" /\ pc' = "loop"
       ELSE video' = video /\ pc' = "init_failed"
    /\ UNCHANGED <<env_token, env_channel, count, last_positive_frame, frame,
                   alerts, ret, posts, prev_positive, last_post, seen, dets,
                   di, other>>

\* for frame in self.frames: alerts = set()
BeginFrame(frame_num, dims) ==
    /\ pc = "loop"
    /\ frame' = [frame_num |-> frame_num, frame_width |-> dims[1],
                 frame_height |-> dims[2]]
    /\ alerts' = {}
    /\ seen' = frame_num
    /\ pc' = "frame"
    /\ UNCHANGED <<env_token, env_channel, rois, objects_in_rois, count,
                   last_positive_frame, slack_client, video, ret, posts,
                   prev_positive, last_post, dets, di, other>>

\* what follows execute in one pass of the loop over frame["detections"],
\* e being what execute did and n what notify did in it: alerts.add and the
\* drawing of the detection, which looks its class up in the colours.  An
\* error notify does not catch, or a class without a colour, leaves render
\* by an exception: pc is "notify_error" or "key_error" and render has
\* ended.
Evaluated(d, e, n) ==
    /\ objects_in_rois' = e.objs
    /\ count' = e.count
    /\ last_positive_frame' = e.last
    /\ posts' = IF n \in {"sent", "caught", "raised"} THEN posts + 1
                ELSE posts
    /\ prev_positive' = IF e.asked THEN frame.frame_num ELSE prev_positive
    /\ last_post' = IF n \in {"sent", "caught", "raised"} THEN frame.frame_num
                    ELSE last_post
    /\ IF n = "raised"
       THEN /\ pc' = "notify_error"
            /\ UNCHANGED <<alerts, ret>>
       ELSE /\ ret' = e.ret
            /\ alerts' = alerts \cup {e.ret}
            /\ pc' = IF d.class \in colors THEN "frame" ELSE "key_error"

\* the call of notify in execute; outcome is what chat_postMessage does
Notifying(d, e, outcome) ==
    /\ e.notify \/ outcome = "ok"
    /\ Evaluated(d, e, IF e.notify THEN notify(slack_client, outcome)
                       ELSE "none")

\* one pass of the loop over frame["detections"]
Detect(d, outcome) ==
    /\ pc = "frame"
    /\ Notifying(d,
                 execute(rois, objects_in_rois, count, last_positive_frame,
                         slack_client,
                         calculate_coords(d.bbox.left, d.bbox.top,
                                          d.bbox.width, d.bbox.height,
                                          frame.frame_width,
                                          frame.frame_height),
                         d.class, frame.frame_num),
                 outcome)
    /\ UNCHANGED <<env_token, env_channel, rois, slack_client, video, frame,
                   seen, other>>

\* the end of one pass of the loop over the frames: the regions and the
\* border are drawn, the image is written and reset_objects is called.
\* alerts and frame are dead from here on and are cleared.
EndFrame ==
    /\ pc = "frame"
    /\ objects_in_rois' = reset_objects(objects_in_rois)
    /\ frame' = NoFrame
    /\ alerts' = {}
    /\ pc' = "loop"
    /\ UNCHANGED <<env_token, env_channel, rois, count, last_positive_frame,
                   slack_client, video, ret, posts, prev_positive, last_post,
                   seen, dets, di, other>>

\* self.frames is exhausted: self.video.release()
Release ==
    /\ pc = "loop"
    /\ video' = "released"
    /\ pc' = "done"
    /\ UNCHANGED <<env_token, env_channel, rois, objects_in_rois, count,
                   last_positive_frame, slack_client, frame, alerts, ret,
                   posts, prev_positive, last_post, seen, dets, di,
                   other>>

(***************************************************************************)
(* Spec: the program over frames whose detections are drawn one by one.    *)
(***************************************************************************)
DetectNext ==
    /\ count < MaxCount
    /\ \E d \in Detections, o \in Outcomes : Detect(d, o)
    /\ UNCHANGED <<dets, di>>

Next ==
    \/ \E rs \in RoiConfigs : Construct(rs)
    \/ \E fn \in FrameNums, dims \in FrameDims : BeginFrame(fn, dims)
    \/ DetectNext
    \/ EndFrame
    \/ Release

Spec == Init /\ [][Next]_vars

(***************************************************************************)
(* SpecGate: the same program over the frame numbers that exercise the     *)
(* gate.                                                                   *)
(***************************************************************************)
GateDetect ==
    /\ count < MaxGateCount
    /\ \E d \in GateDetections, o \in Outcomes : Detect(d, o)
    /\ UNCHANGED <<dets, di>>

NextGate ==
    \/ \E rs \in RoiConfigs : Construct(rs)
    \/ \E fn \in GateFrameNums, dims \in FrameDims : BeginFrame(fn, dims)
    \/ GateDetect
    \/ EndFrame
    \/ Release

SpecGate == Init /\ [][NextGate]_vars

(***************************************************************************)
(* SpecMono: the gate over a stream whose frame numbers do not decrease.   *)
(***************************************************************************)
BeginMono ==
    \E fn \in GateFrameNums, dims \in FrameDims :
        fn >= seen /\ BeginFrame(fn, dims)

NextMono ==
    \/ \E rs \in RoiConfigs : Construct(rs)
    \/ BeginMono
    \/ GateDetect
    \/ EndFrame
    \/ Release

SpecMono == Init /\ [][NextMono]_vars

(***************************************************************************)
(* SpecShared: the program when another engine is constructed in the same  *)
(* process.  _rois and _objects_in_rois are attributes of the class, so    *)
(* the lists this engine reads are the lists the other one appends to.     *)
(***************************************************************************)
\* CAP(rs) for another engine, at any point of the program:
\* RuleEngine.__init__ appends its regions and presence maps to the lists
\* of the class, makes its client when a token is set and raises when the
\* channel is absent; its _count and _last_positive_frame are its own
ConstructOther(rs) ==
    /\ other.state = "none"
    /\ rois' = rois \o rs
    /\ objects_in_rois' = objects_in_rois \o [i \in 1..Len(rs) |-> NewMap]
    /\ other' = [other EXCEPT !.state = IF env_channel THEN "made"
                                        ELSE "failed",
                              !.client = env_token]
    /\ UNCHANGED <<env_token, env_channel, count, last_positive_frame,
                   slack_client, video, pc, frame, alerts, ret, posts,
                   prev_positive, last_post, seen, dets, di>>

\* what an execute of the other engine that did e leaves: the maps of the
\* class and its own counter and last_positive_frame; when notify is
\* called a message is posted, and an error of it goes to the caller of
\* that execute
OtherEvaluated(e) ==
    /\ objects_in_rois' = e.objs
    /\ other' = [other EXCEPT !.count = e.count,
                              !.last = e.last,
                              !.posts = IF e.notify THEN @ + 1 ELSE @]

\* execute of the other engine, which goes through the regions of the
\* class and marks the presence maps of the class
ExecuteOther(d, frame_num, dims) ==
    /\ other.state = "made"
    /\ other.count < MaxOtherCount
    /\ OtherEvaluated(execute(rois, objects_in_rois, other.count, other.last,
                              other.client,
                              calculate_coords(d.bbox.left, d.bbox.top,
                                               d.bbox.width, d.bbox.height,
                                               dims[1], dims[2]),
                              d.class, frame_num))
    /\ UNCHANGED <<env_token, env_channel, rois, count, last_positive_frame,
                   slack_client, video, pc, frame, alerts, ret, posts,
                   prev_positive, last_post, seen, dets, di>>

\* reset_objects of the other engine, which resets the maps of the class
ResetOther ==
    /\ other.state = "made"
    /\ objects_in_rois' = reset_objects(objects_in_rois)
    /\ UNCHANGED <<env_token, env_channel, rois, count, last_positive_frame,
                   slack_client, video, pc, frame, alerts, ret, posts,
                   prev_positive, last_post, seen, dets, di, other>>

\* should_notify of the other engine, called directly: it stores the frame
\* number in its own _last_positive_frame, whatever it returns
ShouldNotifyOther(current_frame) ==
    /\ other.state = "made"
    /\ other' = [other EXCEPT !.last =
                     should_notify(other.client, other.last,
                                   current_frame).last]
    /\ UNCHANGED <<env_token, env_channel, rois, objects_in_rois, count,
                   last_positive_frame, slack_client, video, pc, frame,
                   alerts, ret, posts, prev_positive, last_post, seen, dets,
                   di>>

\* notify of the other engine, called directly: with its client a message
\* is posted, and an error of it goes to the caller
NotifyOther(outcome) ==
    /\ other.state = "made"
    /\ other.posts < MaxOtherPosts
    /\ other' = [other EXCEPT !.posts =
                     IF notify(other.client, outcome) = "skipped" THEN @
                     ELSE @ + 1]
    /\ UNCHANGED <<env_token, env_channel, rois, objects_in_rois, count,
                   last_positive_frame, slack_client, video, pc, frame,
                   alerts, ret, posts, prev_positive, last_post, seen, dets,
                   di>>

SharedDetect ==
    /\ count < MaxCount
    /\ \E d \in GateDetections, o \in Outcomes : Detect(d, o)
    /\ UNCHANGED <<dets, di>>

NextShared ==
    \/ \E rs \in RoiConfigs : Construct(rs)
    \/ \E rs \in RoiConfigs : ConstructOther(rs)
    \/ \E d \in GateDetections, fn \in FrameNums, dims \in FrameDims :
           ExecuteOther(d, fn, dims)
    \/ ResetOther
    \/ \E fn \in FrameNums : ShouldNotifyOther(fn)
    \/ \E o \in Outcomes : NotifyOther(o)
    \/ \E fn \in FrameNums, dims \in FrameDims : BeginFrame(fn, dims)
    \/ SharedDetect
    \/ EndFrame
    \/ Release

SpecShared == Init /\ [][NextShared]_vars

(***************************************************************************)
(* SpecFrame: the program over one frame that is given whole, dets, for    *)
(* the properties that compare the orders of its detections.               *)
(***************************************************************************)
RECURSIVE SeqsUpTo(_, _)
SeqsUpTo(S, n) ==
    IF n = 0 THEN { << >> }
    ELSE LET shorter == SeqsUpTo(S, n - 1)
         IN  shorter \cup
             {Append(q, x) : q \in {r \in shorter : Len(r) = n - 1}, x \in S}

InitFrame ==
    /\ env_token \in BOOLEAN
    /\ env_channel \in BOOLEAN
    /\ rois = << >>
    /\ objects_in_rois = << >>
    /\ count = 0
    /\ last_positive_frame = 0
    /\ slack_client = FALSE
    /\ video = "none"
    /\ pc = "start"
    /\ frame = NoFrame
    /\ alerts = {}
    /\ ret = -1
    /\ posts = 0
    /\ prev_positive = -1
    /\ last_post = -1
    /\ seen = 0
    /\ dets \in SeqsUpTo(FrameDetections, MaxDets)
    /\ di = 0
    /\ other = NoOther

\* the frame of dets is the only one of self.frames
BeginStored ==
    /\ di = 0
    /\ dets # << >>
    /\ BeginFrame(MaxFrameNum, <<4, 4>>)

\* the loop over frame["detections"] takes the next detection of dets
DetectStored ==
    /\ di < Len(dets)
    /\ \E o \in Outcomes : Detect(dets[di + 1], o)
    /\ di' = di + 1
    /\ dets' = dets

\* the loop over frame["detections"] is through
EndStored ==
    /\ di = Len(dets)
    /\ EndFrame

\* self.frames is exhausted
ReleaseStored ==
    /\ di = Len(dets)
    /\ Release

NextFrame ==
    \/ \E rs \in RoiConfigs : Construct(rs)
    \/ BeginStored
    \/ DetectStored
    \/ EndStored
    \/ ReleaseStored

SpecFrame == InitFrame /\ [][NextFrame]_vars

\* what the loop over the detections ds of one frame leaves, when no
\* exception ends it: execute and alerts.add for each in turn
RECURSIVE RunFrame(_, _, _, _, _, _, _, _, _, _)
RECURSIVE RunRest(_, _, _, _, _, _, _, _)
RunFrame(rs, objs, cnt, last, client, al, ds, frame_width, frame_height, frame_num) ==
    IF ds = << >>
    THEN [objs |-> objs, count |-> cnt, last |-> last, alerts |-> al]
    ELSE RunRest(rs,
                 execute(rs, objs, cnt, last, client,
                         calculate_coords(Head(ds).bbox.left,
                                          Head(ds).bbox.top,
                                          Head(ds).bbox.width,
                                          Head(ds).bbox.height,
                                          frame_width, frame_height),
                         Head(ds).class, frame_num),
                 client, al, Tail(ds), frame_width, frame_height, frame_num)

\* the rest of the loop after an execute that did e
RunRest(rs, e, client, al, ds, frame_width, frame_height, frame_num) ==
    RunFrame(rs, e.objs, e.count, e.last, client, al \cup {e.ret}, ds,
             frame_width, frame_height, frame_num)

(***************************************************************************)
(* Properties                                                              *)
(***************************************************************************)
\* a step in which the rule evaluated positive: should_notify was called
Positive == count' = count + 1

\* a step in which notify posted a message: should_notify returned true
Notified == posts' = posts + 1

\* C1: every call of should_notify(current_frame) returns true exactly when
\* a client is configured and current_frame minus the last_positive_frame
\* of before the call exceeds maximum_allowed_diff, and it leaves
\* last_positive_frame equal to current_frame whatever it returned; without
\* a client it returns false and still updates last_positive_frame.
C1_ShouldNotifyContract ==
    [][Positive =>
        /\ Notified <=>
              (slack_client /\
               frame.frame_num - last_positive_frame > maximum_allowed_diff)
        /\ last_positive_frame' = frame.frame_num]_vars

\* should_notify has returned true and then false with a client, and the
\* false call moved last_positive_frame
C1_Witness ==
    /\ slack_client
    /\ count = 2
    /\ posts = 1
    /\ last_positive_frame = 11

\* C2: the gate measures the gap between consecutive rule-positive
\* evaluations: a rule-positive evaluation that follows another one
\* notifies exactly when a client is configured and its frame number
\* exceeds the frame number of the rule-positive evaluation right before it
\* by more than the threshold, whether or not that one notified.  So the
\* positives at frames 10, 11, 12, 20 of an idle gate give true, false,
\* false, true.
C2_GapBetweenPositives ==
    [][(Positive /\ prev_positive >= 0) =>
        (Notified <=>
            (slack_client /\
             frame.frame_num - prev_positive > maximum_allowed_diff))]_vars

\* four rule-positive evaluations, the last at frame 20 right after one at
\* an earlier frame, of which two notified
C2_Witness ==
    /\ slack_client
    /\ count = 4
    /\ posts = 2
    /\ prev_positive = 20
    /\ pc = "frame"

\* the point execute tests the regions with, for detection d of the frame
Point(d) ==
    centroid(calculate_coords(d.bbox.left, d.bbox.top, d.bbox.width,
                              d.bbox.height, frame.frame_width,
                              frame.frame_height))

\* the regions that contain the centroid of d
Hit(d) == {i \in 1..Len(rois) : intersects(rois[i], Point(d))}

Lowest(S) == CHOOSE i \in S : \A j \in S : i =< j

\* the outcome a Detect step had: a step Detect(d, o) is Detect(d, Outcome)
\* as well, since "ok" and "SlackApiError" leave the same state, and so do
\* "error" and "SlackApiError_no_error"
Outcome == IF pc' = "notify_error" THEN "error" ELSE "ok"

AllClear(objs) ==
    \A i \in 1..Len(objs) : \A c \in DOMAIN objs[i] : ~objs[i][c]

\* what C3 says of a step that evaluates a detection of class c whose
\* centroid lies in region i first
C3_Post(c, i, after) ==
    /\ after[c]
    /\ IF after["car"] /\ after["person"]
       THEN /\ count' = count + 1
            /\ pc' # "notify_error" => ret' = i - 1
       ELSE /\ count' = count
            /\ ret' = -1

C3_Step(d, hit) ==
    (Detect(d, Outcome) /\ hit # {}) =>
        C3_Post(d.class, Lowest(hit), objects_in_rois'[Lowest(hit)])

\* C3: for a detection whose centroid lies in a region, the evaluation is
\* positive (the counter goes up by exactly one and execute returns the
\* index of the region) exactly when, after the mark of its class, the car
\* flag and the person flag of the region are both true; otherwise the
\* counter is unchanged and execute returns -1.  So cars alone are
\* negative, and once both are present every further detection in the
\* region is positive again.
C3_RulePositiveIffBoth ==
    [][pc = "frame" => \A d \in Detections : C3_Step(d, Hit(d))]_vars

\* two positive evaluations, the later with car and person both present
\* in region 0, after a negative one in the same frame
C3_Witness ==
    /\ pc = "frame"
    /\ count = 2
    /\ ret = 0
    /\ alerts = {-1, 0}
    /\ rule(objects_in_rois[1])

\* C4: when the first detection of a frame is evaluated every presence
\* flag of every region is false: the maps are reset at the end of each
\* frame, after its detections and before the next frame, so a positive
\* result depends on the detections of its own frame only.
C4_FrameStartsClear ==
    (pc = "frame" /\ alerts = {}) => AllClear(objects_in_rois)

\* after a frame with a positive evaluation, a later frame has a car but
\* no person in region 0 and its evaluation is negative
C4_Witness ==
    /\ pc = "frame"
    /\ count >= 1
    /\ alerts = {-1}
    /\ ret = -1
    /\ objects_in_rois[1]["car"]
    /\ ~objects_in_rois[1]["person"]

\* C5: reset_objects, called at the end of a frame, leaves every flag of
\* every region false, whatever the maps held, and changes nothing else:
\* the regions, the counter and last_positive_frame are as before.
C5_ResetClearsOnlyPresence ==
    [][(pc = "frame" /\ pc' = "loop") =>
        /\ Len(objects_in_rois') = Len(rois)
        /\ \A i \in 1..Len(rois) : objects_in_rois'[i] = NewMap
        /\ rois' = rois
        /\ count' = count
        /\ last_positive_frame' = last_positive_frame]_vars

\* reset_objects has run after frames that marked the regions and drove
\* the counter
C5_Witness ==
    /\ pc = "loop"
    /\ count = 2
    /\ last_positive_frame = 2
    /\ AllClear(objects_in_rois)

\* C6: a detection whose centroid lies in no region leaves the presence
\* maps, the counter and last_positive_frame unchanged, posts no
\* notification, and execute returns -1.
C6_OutsideChangesNothing ==
    [][pc = "frame" =>
        \A d \in Detections :
            (Detect(d, Outcome) /\ Hit(d) = {}) =>
                /\ objects_in_rois' = objects_in_rois
                /\ count' = count
                /\ last_positive_frame' = last_positive_frame
                /\ posts' = posts
                /\ ret' = -1]_vars

\* a detection has been evaluated and no region is marked
C6_Witness ==
    /\ pc = "frame"
    /\ alerts = {-1}
    /\ ret = -1
    /\ AllClear(objects_in_rois)

\* what C7 says of a step that evaluates a detection of class c whose
\* centroid lies in the regions hit and that changes the maps of changed
C7_Post(c, hit, changed) ==
    /\ Cardinality(changed) =< 1
    /\ \A i \in changed : i \in hit /\ i = Lowest(hit)
    /\ hit # {} =>
          /\ objects_in_rois'[Lowest(hit)][c]
          /\ pc' # "notify_error" => ret' \in {-1, Lowest(hit) - 1}

\* C7: execute marks at most one region, the region of lowest index among
\* those that contain the centroid, and evaluates the rule for that one
\* only; the maps of all other regions are unchanged.
C7_FirstMatchWins ==
    [][pc = "frame" =>
        \A d \in Detections :
            Detect(d, Outcome) =>
                C7_Post(d.class, Hit(d),
                        {i \in 1..Len(rois) :
                            objects_in_rois'[i] # objects_in_rois[i]})]_vars

\* a truck whose centroid lies in both RoiA and RoiB is marked in RoiA,
\* the first of the two, and not in RoiB
C7_Witness ==
    /\ pc = "frame"
    /\ rois = <<RoiA, RoiB>>
    /\ frame.frame_width = 4
    /\ objects_in_rois[1]["truck"]
    /\ ~objects_in_rois[2]["truck"]

\* C8: in every step notify posts at most one message, and it posts one
\* exactly when the rule evaluated positive in that step and should_notify
\* returned true for the frame number; a negative evaluation, or a
\* detection outside all regions, calls neither should_notify (the gate is
\* left as it was) nor notify.
C8_NotifyOnlyWhenApproved ==
    [][/\ posts' \in {posts, posts + 1}
       /\ Notified <=>
             /\ Positive
             /\ slack_client
             /\ frame.frame_num - last_positive_frame > maximum_allowed_diff
       /\ ~Positive =>
             last_positive_frame' = last_positive_frame]_vars

\* one alert was approved and posted, and the first evaluation of a later
\* frame was negative
C8_Witness ==
    /\ pc = "frame"
    /\ slack_client
    /\ posts = 1
    /\ count = 1
    /\ alerts = {-1}
    /\ ret = -1

\* C9: whenever the delivery of a notification fails, notify catches the
\* failure: the counter, the presence maps and last_positive_frame keep
\* the values the approved alert left them with and the loop goes on with
\* the next detection.
C9_NotifierFailureContained ==
    [][\A d \in Detections, o \in Outcomes \ {"ok"} :
        (Detect(d, o) /\ Notified /\ d.class \in colors) =>
            /\ pc' = "frame"
            /\ count' = count + 1
            /\ last_positive_frame' = frame.frame_num
            /\ objects_in_rois' =
                  Mark(objects_in_rois, Lowest(Hit(d)), d.class)]_vars

Perms(n) == {p \in [1..n -> 1..n] : \A i, j \in 1..n : p[i] = p[j] => i = j}

\* the frame of dets with its detections in the order p, run from the
\* state the engine is constructed in
Reordered(p) ==
    RunFrame(rois, reset_objects(objects_in_rois), 0, 0, slack_client, {},
             [i \in 1..Len(dets) |-> dets[p[i]]], frame.frame_width,
             frame.frame_height, frame.frame_num)

FrameThrough == pc = "frame" /\ di = Len(dets) /\ dets # << >>

SameMaps(a, b) ==
    \A i \in 1..Len(rois) :
        /\ DOMAIN a[i] = DOMAIN b[i]
        /\ \A c \in DOMAIN a[i] : a[i][c] = b[i][c]

\* the frame in another order left r: the same counter and the same set
\* of returned indices
C10_SameCount(r) ==
    /\ r.count = count
    /\ r.alerts = alerts

\* C10 as stated: any order of the detections of a frame leaves the same
\* occurrence counter and the same rule outcome for each region.
C10_CountOrderIndependent ==
    FrameThrough => \A p \in Perms(Len(dets)) : C10_SameCount(Reordered(p))

\* the frame in another order left r: the same set of returned indices,
\* the same maps and gate, and a counter that is positive alike
C10_SameOutcome(r) ==
    /\ r.alerts = alerts
    /\ SameMaps(r.objs, objects_in_rois)
    /\ r.last = last_positive_frame
    /\ (r.count > 0) <=> (count > 0)

\* C10, amended: any order of the detections of a frame leaves the same
\* rule outcome for each region (the same set of returned indices) and
\* the same presence maps and last_positive_frame; the occurrence counter
\* is positive in one order exactly when it is in the other.
C10_OutcomeOrderIndependent ==
    FrameThrough => \A p \in Perms(Len(dets)) : C10_SameOutcome(Reordered(p))

\* the frame car, person, car in region 0 is through, with two positive
\* evaluations
C10_Witness ==
    /\ FrameThrough
    /\ Len(dets) = 3
    /\ dets[1].class = "car"
    /\ dets[2].class = "person"
    /\ dets[3].class = "car"
    /\ count = 2
    /\ alerts = {-1, 0}

\* C11 as claimed: in every reachable state last_positive_frame is the
\* frame number of the last frame for which a notification was sent (a
\* message was posted), or 0 if none has been sent yet.
C11_LastNotifiedFrame ==
    last_positive_frame = IF last_post = -1 THEN 0 ELSE last_post

\* C11: in every reachable state last_positive_frame is the frame number of
\* the last rule-positive evaluation, whether or not a notification was
\* sent for it, or 0 if no evaluation has been positive yet.
C11_LastPositiveFrame ==
    last_positive_frame = IF prev_positive = -1 THEN 0 ELSE prev_positive

\* a notification went out at frame 10 and the positive evaluation of
\* frame 11, which the gate suppressed, moved last_positive_frame
C11_Witness ==
    /\ last_post = 10
    /\ posts = 1
    /\ count = 2
    /\ last_positive_frame = 11

\* C12 as claimed: in every reachable state the key set of the presence
\* map of every region is exactly {car, person, truck}; marking a class
\* outside this set adds no key.
C12_KeysExactlyTracked ==
    \A i \in 1..Len(objects_in_rois) : DOMAIN objects_in_rois[i] = Tracked

\* C12: in every reachable state the key set of the presence map of every
\* region contains {car, person, truck}, and is exactly this set after
\* construction and after each reset_objects; marking a detection whose
\* class is outside the set raises no error and adds the class as a key
\* whose flag is true, which stays until the next reset_objects.
C12_KeysIncludeTracked ==
    \A i \in 1..Len(objects_in_rois) :
        /\ Tracked \subseteq DOMAIN objects_in_rois[i]
        /\ \A k \in (DOMAIN objects_in_rois[i]) \ Tracked :
               objects_in_rois[i][k]
        /\ pc \in {"init_failed", "loop", "done"} =>
               DOMAIN objects_in_rois[i] = Tracked

\* a detection of class "other" was marked in region 0 and the loop over
\* the detections goes on
C12_Witness ==
    /\ pc = "frame"
    /\ DOMAIN objects_in_rois[1] = Tracked \cup {"other"}
    /\ objects_in_rois[1]["other"]

\* C13: the construction of the engine fails exactly when a token is set
\* and the channel is not; with neither of them it succeeds, and the frames
\* are evaluated and counted with notification disabled.
C13_ChannelNeededWithToken ==
    pc # "start" => (pc = "init_failed" <=> (env_token /\ ~env_channel))

\* a step of the other engine: its construction or a call on it
OtherStep ==
    \/ \E rs \in RoiConfigs : ConstructOther(rs)
    \/ \E d \in GateDetections, fn \in FrameNums, dims \in FrameDims :
           ExecuteOther(d, fn, dims)
    \/ ResetOther
    \/ \E fn \in FrameNums : ShouldNotifyOther(fn)
    \/ \E o \in Outcomes : NotifyOther(o)

\* C14: every engine owns its state and its regions are fixed once it is
\* constructed: an engine has exactly the regions it was constructed with
\* and one presence map for each, and the construction of another engine,
\* or a call of a method of it, never changes the region list,
\* the presence maps, the counter or last_positive_frame of this engine.
C14_OwnState ==
    [][/\ \A rs \in RoiConfigs :
              Construct(rs) =>
                  (rois' = rs /\ Len(objects_in_rois') = Len(rs))
       /\ (pc # "start" /\ OtherStep) =>
              /\ rois' = rois
              /\ Len(objects_in_rois') = Len(objects_in_rois)
              /\ SameMaps(objects_in_rois', objects_in_rois)
              /\ count' = count
              /\ last_positive_frame' = last_positive_frame]_vars

\* the first n detections of the frame of dets in a run without a client,
\* from the state the engine is constructed in
Unconfigured(n) ==
    RunFrame(rois, reset_objects(objects_in_rois), 0, 0, FALSE, {},
             SubSeq(dets, 1, n), frame.frame_width, frame.frame_height,
             frame.frame_num)

\* the run without a client left r: the same maps, counter,
\* last_positive_frame and returned indices as this run
C15_SameRun(r) ==
    /\ SameMaps(r.objs, objects_in_rois)
    /\ r.count = count
    /\ r.last = last_positive_frame
    /\ r.alerts = alerts

\* C15: the counter counts the rule-positive evaluations whatever becomes
\* of the notifications: after each detection of a stream, a run with a
\* client, whether its deliveries succeed or fail, has the same presence
\* maps, the same values returned by execute, the same last_positive_frame
\* and the same counter as the run without a client over the same stream.
C15_NotificationIndependent ==
    (pc \in {"frame", "notify_error"} /\ di > 0) =>
        C15_SameRun(Unconfigured(di))

\* what C16 says of a step that evaluates detection d, whose centroid the
\* regions hit contain: if the class of d is already marked in the first of
\* them, the step leaves the maps of all regions as they are
C16_Step(d, hit) ==
    (/\ Detect(d, Outcome)
     /\ hit # {}
     /\ d.class \in DOMAIN objects_in_rois[Lowest(hit)]
     /\ objects_in_rois[Lowest(hit)][d.class]) =>
        SameMaps(objects_in_rois', objects_in_rois)

\* C16: the mark is idempotent: within a frame, marking a class in a region
\* where it is already marked leaves the presence maps of all regions as
\* the first mark left them.
C16_MarkIdempotent ==
    [][(pc = "frame" /\ di < Len(dets)) =>
        C16_Step(dets[di + 1], Hit(dets[di + 1]))]_vars

\* the same detection came twice in the frame and its class is marked in
\* region 0
C16_Witness ==
    /\ pc = "frame"
    /\ di = 2
    /\ dets[1] = dets[2]
    /\ dets[1].bbox = BoxA
    /\ objects_in_rois[1][dets[1].class]

\* C17: in every state in which render has ended, by exhausting the frames
\* or by an error raised while a detection or a frame is processed, the
\* video writer that was opened at construction has been released.
C17_SinkReleased ==
    pc \in {"done", "key_error", "notify_error"} => video = "released"

\* C18 as claimed: the index of a region is recorded as alerting for a
\* frame only by a detection for which the rule evaluated positive and
\* should_notify returned true (a message was posted); a positive the gate
\* suppressed does not record its region.
C18_AlertingOnlyWhenNotified ==
    [][\A i \in alerts' \ alerts : i >= 0 => (Positive /\ Notified)]_vars

\* C18: the index of a region is recorded as alerting for a frame only by a
\* detection of that frame for which the rule evaluated positive in that
\* region, whether or not the gate approved the notification: a positive
\* the gate suppressed records its region as well.
C18_AlertingOnlyWhenPositive ==
    [][\A i \in alerts' \ alerts : i >= 0 =>
        /\ Positive
        /\ ret' = i
        /\ rule(objects_in_rois'[i + 1])]_vars

\* with a client, region 0 is recorded as alerting by a positive evaluation
\* for which the gate let no message out
C18_Witness ==
    /\ pc = "frame"
    /\ slack_client
    /\ count = 1
    /\ posts = 0
    /\ 0 \in alerts

\* C19: over a stream whose frame numbers do not decrease, a notification
\* is posted only for a frame number that exceeds the frame number of the
\* notification before it by more than maximum_allowed_diff; so any two
\* notifications of the engine are that far apart, and no frame number gets
\* two of them however many of its detections are rule-positive.
C19_NotificationsApart ==
    [][(Notified /\ last_post # -1) =>
        frame.frame_num - last_post > maximum_allowed_diff]_vars

\* notifications at frame 10 and at frame 20, the positives of the frames
\* between them suppressed
C19_Witness ==
    /\ posts = 2
    /\ count = 4
    /\ last_post = 20
    /\ last_positive_frame = 20
    /\ seen = 20

\* C20: last_positive_frame starts at 0, so with a client the first
\* rule-positive evaluation of the engine notifies exactly when its frame
\* number is greater than maximum_allowed_diff: a first positive at a frame
\* number of 0..maximum_allowed_diff is suppressed although nothing was
\* ever sent.
C20_FirstPositive ==
    [][(Positive /\ prev_positive = -1 /\ slack_client) =>
        (Notified <=> frame.frame_num > maximum_allowed_diff)]_vars

\* with a client, the first positive evaluation came at frame 1 and
\* nothing was posted
C20_Witness ==
    /\ slack_client
    /\ count = 1
    /\ prev_positive = 1
    /\ posts = 0
    /\ last_post = -1

====
